---------------------------- MODULE Spec2Model ----------------------------
(***************************************************************************)
(* Model of NRDataReader (src/NR_data_reader.py): block-size detection,    *)
(* time extraction, per-level record building, the multi-level merge and   *)
(* the load() driver with its per-variable path registry.                  *)
(*                                                                         *)
(* A text line is a record [k, a, b].  The field k is the shape of the     *)
(* line, which decides how each of the three readers of the code treats    *)
(* it:                                                                     *)
(*   "QH"  a header that begins with the quote character, holds the token  *)
(*         Time and an assignment whose right side is the number a,        *)
(*         e.g.  "Time = 0.0"   (the quotes are part of the line)          *)
(*   "UH"  a header that does not begin with the quote character, holds    *)
(*         the token Time and an assignment whose right side is the        *)
(*         number a wrapped in quotes, e.g.  Time = "0.0"                  *)
(*   "BH"  a header that begins with the quote character and holds the     *)
(*         token Time but no assignment, e.g.  "Time                       *)
(*   "D"   a body row of two numeric fields, position a and value b        *)
(*   "E"   a blank line                                                    *)
(* Times, positions and values are integers standing for the floats.       *)
(***************************************************************************)
EXTENDS Integers, Sequences, FiniteSets, TLC

VARIABLES
    fs_lines,        \* a file's lines (input of the per-file functions)
    fs_times,        \* the reference time sequence handed to the builder
    fs_level,        \* the index i of the file among its variable's files
    fs_block,        \* <<>> or <<result of _get_lines_per_block>>
    fs_ptimes,       \* <<>> or <<result of _parse_times_from_file>>
    fs_recs,         \* <<>> or <<outcome of one iteration of the level loop>>
    mg_in,           \* all_levels_dfs, concatenated
    mg_out,          \* <<>> or <<merged dataset>>
    directory,       \* the data directory: path -> lines
    variable_paths,  \* self.variable_paths
    variables,       \* self.variables
    times,           \* self.times
    data,            \* self.data
    status,          \* outcome of the last load(): "new", "ok", "nofiles", "raised"
    loads            \* number of load() calls made

fsvars == <<fs_lines, fs_times, fs_level, fs_block, fs_ptimes, fs_recs>>
mgvars == <<mg_in, mg_out>>
ldvars == <<directory, variable_paths, variables, times, data, status, loads>>
vars == <<fs_lines, fs_times, fs_level, fs_block, fs_ptimes, fs_recs,
          mg_in, mg_out,
          directory, variable_paths, variables, times, data, status, loads>>

\* the value of the variables a specification does not use
FsIdle ==
    /\ fs_lines = <<>>
    /\ fs_times = <<>>
    /\ fs_level = 0
    /\ fs_block = <<>>
    /\ fs_ptimes = <<>>
    /\ fs_recs = <<>>

MgIdle ==
    /\ mg_in = <<>>
    /\ mg_out = <<>>

LdIdle ==
    /\ directory = <<>>
    /\ variable_paths = <<>>
    /\ variables = <<>>
    /\ times = <<>>
    /\ data = <<>>
    /\ status = "new"
    /\ loads = 0

-----------------------------------------------------------------------------
(* Bounds *)

MaxB == 5          \* largest block size of a generated file
MaxK == 2          \* largest number of blocks of a generated file
MaxPre == 1        \* largest number of blank lines before the first block
MaxTrail == 1      \* largest number of body rows after the last block
MaxTimes == 3      \* largest length of a reference time sequence
MaxRecs == 3       \* largest number of records handed to the merge
MaxLevel == 1      \* largest level index of a record handed to the merge
NVars == 2         \* number of variable names a directory can hold
NSfx == 2          \* number of file suffixes per variable name
MaxFiles == 3      \* largest number of files in the directory
MaxLoads == 2      \* largest number of load() calls

-----------------------------------------------------------------------------
(* Lines and files *)

Min(a, b) == IF a <= b THEN a ELSE b

QH(t) == [k |-> "QH", a |-> t, b |-> 0]
UH(t) == [k |-> "UH", a |-> t, b |-> 0]
BH == [k |-> "BH", a |-> 0, b |-> 0]
D(x, v) == [k |-> "D", a |-> x, b |-> v]
E == [k |-> "E", a |-> 0, b |-> 0]

HdrKinds == {"QH", "UH", "BH"}

Header(kind, t) == IF kind = "QH" THEN QH(t) ELSE IF kind = "UH" THEN UH(t) ELSE BH

\* One block of B lines: header, B-2 body rows, one blank line.
\* The k-th block (k = 1, 2, ...) carries time k-1; its row j has position j-1
\* and value vb + k - 1.
Block(B, k, kind, vb) ==
    <<Header(kind, k - 1)>>
    \o [j \in 1..(IF B >= 2 THEN B - 2 ELSE 0) |-> D(j - 1, vb + k - 1)]
    \o (IF B >= 2 THEN <<E>> ELSE <<>>)

RECURSIVE Blocks(_, _, _, _)
Blocks(B, K, kinds, vb) ==
    IF K = 0 THEN <<>>
    ELSE Blocks(B, K - 1, kinds, vb) \o Block(B, K, kinds[K], vb)

\* p blank lines, K blocks of B lines, r further body rows.
MkFile(B, K, kinds, p, r, vb) ==
    [j \in 1..p |-> E] \o Blocks(B, K, kinds, vb) \o [j \in 1..r |-> D(j - 1, vb + K)]

-----------------------------------------------------------------------------
(* _get_lines_per_block *)

\* 'Time' in line
HasTime(line) == line.k \in {"QH", "UH", "BH"}

\* the scan of lines i, i+1, ... with the header indices found so far
\* (0-based, as enumerate gives them); stops at the second
RECURSIVE ScanHeaders(_, _, _)
ScanHeaders(lines, i, found) ==
    IF i > Len(lines) THEN found
    ELSE IF HasTime(lines[i])
         THEN IF Len(found) + 1 = 2
              THEN Append(found, i - 1)
              ELSE ScanHeaders(lines, i + 1, Append(found, i - 1))
         ELSE ScanHeaders(lines, i + 1, found)

\* the distance counted with both ends
get_lines_per_block_incl(lines) ==
    LET time_header_indices == ScanHeaders(lines, 1, <<>>)
    IN IF Len(time_header_indices) < 2 THEN 0
       ELSE time_header_indices[2] - time_header_indices[1] + 1

get_lines_per_block(lines) ==
    LET time_header_indices == ScanHeaders(lines, 1, <<>>)
    IN IF Len(time_header_indices) < 2 THEN 0
       ELSE time_header_indices[2] - time_header_indices[1]

-----------------------------------------------------------------------------
(* _parse_times_from_file *)

\* float(line.split('=')[1].strip().strip('"')): <<t>>, or <<>> when the
\* IndexError or ValueError is caught
\* the same without .strip('"'): a value wrapped in quotes is not a float
ParseTimeQuotesKept(line) ==
    IF line.k = "QH" THEN <<line.a>> ELSE <<>>

ParseTime(line) ==
    IF line.k \in {"QH", "UH"} THEN <<line.a>> ELSE <<>>

RECURSIVE ParseTimesFrom(_, _, _)
ParseTimesFrom(lines, block_size, i) ==
    IF i > Len(lines) THEN <<>>
    ELSE (IF (i - 1) % block_size = 0 THEN ParseTime(lines[i]) ELSE <<>>)
         \o ParseTimesFrom(lines, block_size, i + 1)

parse_times_from_file(lines, block_size) ==
    IF block_size = 0 THEN <<>> ELSE ParseTimesFrom(lines, block_size, 1)

-----------------------------------------------------------------------------
(* the level loop of _process_variable *)

\* pd.read_csv(filepath, comment='"', sep=r'\s+', names=[x_coordinate, value]):
\* blank lines and lines that begin with the comment character give no row;
\* a body row gives its two numbers; a line  Time = "0.0"  is cut at the
\* quote and gives the row of the two text fields  Time  and  =  (txt).
IsRow(line) == line.k \in {"D", "UH"}

RowOf(line) ==
    IF line.k = "D" THEN [txt |-> FALSE, x |-> line.a, v |-> line.b]
    ELSE [txt |-> TRUE, x |-> 0, v |-> 0]

read_csv(lines) ==
    LET kept == SelectSeq(lines, IsRow)
    IN [j \in 1..Len(kept) |-> RowOf(kept[j])]

\* np.tile(s, r): the sequence s laid out r times over
Tile(s, r) == [j \in 1..(Len(s) * r) |-> s[((j - 1) % Len(s)) + 1]]

\* np.repeat(s, r)
Repeat(s, r) == [j \in 1..(Len(s) * r) |-> s[((j - 1) \div r) + 1]]

\* self.times[:num_timesteps]
Prefix(s, n) == SubSeq(s, 1, Min(n, Len(s)))

\* the frame left whole
IlocAll(df, n) == df

\* df_level.iloc[:num_rows_to_keep]
Iloc(df, n) == SubSeq(df, 1, Min(n, Len(df)))

\* One iteration of the loop over the files: "skip" (continue), "ok" with the
\* rows of df_complete, or "raise" (assigning a time column whose length is
\* not the length of the frame raises ValueError).
LevelRecords(lines, block_size, tms, i) ==
    LET rows_per_data_block == block_size - 2
    IN IF rows_per_data_block <= 0 THEN [st |-> "skip", rows |-> <<>>]
       ELSE
       LET df_level == read_csv(lines)
           num_timesteps == Len(df_level) \div rows_per_data_block
       IN IF num_timesteps = 0 THEN [st |-> "skip", rows |-> <<>>]
          ELSE
          LET num_rows_to_keep == num_timesteps * rows_per_data_block
              df_complete == Iloc(df_level, num_rows_to_keep)
              time_column == Repeat(Prefix(tms, num_timesteps), rows_per_data_block)
          IN IF Len(time_column) # Len(df_complete)
             THEN [st |-> "raise", rows |-> <<>>]
             ELSE [st |-> "ok",
                   rows |-> [j \in 1..num_rows_to_keep |->
                               [time |-> time_column[j],
                                x |-> df_complete[j].x,
                                v |-> df_complete[j].v,
                                txt |-> df_complete[j].txt,
                                level |-> i]]]

-----------------------------------------------------------------------------
(* the merge of _process_variable *)

\* the order of sort_values(by=[time, x_coordinate, level]), strict
KeyLess(r1, r2) ==
    \/ r1.time < r2.time
    \/ r1.time = r2.time /\ r1.x < r2.x
    \/ r1.time = r2.time /\ r1.x = r2.x /\ r1.level < r2.level

\* r placed after every row that is not greater than it (the sort is stable)
RECURSIVE InsertSorted(_, _)
InsertSorted(s, r) ==
    IF s = <<>> THEN <<r>>
    ELSE IF KeyLess(r, Head(s)) THEN <<r>> \o s
         ELSE <<Head(s)>> \o InsertSorted(Tail(s), r)

RECURSIVE sort_values(_)
sort_values(s) ==
    IF s = <<>> THEN <<>>
    ELSE InsertSorted(sort_values(SubSeq(s, 1, Len(s) - 1)), s[Len(s)])

SameKey(r1, r2) == r1.time = r2.time /\ r1.x = r2.x

\* positions of the rows that drop_duplicates(subset, keep) keeps
KeptLast(s) == {j \in 1..Len(s) : \A k \in (j + 1)..Len(s) : ~SameKey(s[j], s[k])}
KeptFirst(s) == {j \in 1..Len(s) : \A k \in 1..(j - 1) : ~SameKey(s[j], s[k])}

\* the rows of s at the positions of J, in order
RECURSIVE Pick(_, _, _)
Pick(s, J, j) ==
    IF j > Len(s) THEN <<>>
    ELSE (IF j \in J THEN <<s[j]>> ELSE <<>>) \o Pick(s, J, j + 1)

\* drop_duplicates(subset=[time, x_coordinate], keep='first')
drop_duplicates_first(s) == Pick(s, KeptFirst(s), 1)

\* no row dropped
drop_duplicates_none(s) == s

\* drop_duplicates(subset=[time, x_coordinate], keep='last')
drop_duplicates(s) == Pick(s, KeptLast(s), 1)

\* set_index([time, x_coordinate]) and drop(columns=level): the entries of
\* the returned frame, in row order
Entries(s) == [j \in 1..Len(s) |-> [time |-> s[j].time, x |-> s[j].x, v |-> s[j].v]]

\* the rows left in the order of concatenation
sort_skipped(master_df) == Entries(drop_duplicates(master_df))

\* lines 99-105: all_levels_dfs concatenated, sorted, deduplicated
Merge(master_df) ==
    IF master_df = <<>> THEN <<>>
    ELSE Entries(drop_duplicates(sort_values(master_df)))

-----------------------------------------------------------------------------
(* The merge applied to record sets concatenated in any order *)

\* the times, positions and values of the records handed to the merge
SampleTimes == {0, 1}
SamplePositions == {0, 1}
SampleValues == {5, 9}

MergeRecs ==
    [time : SampleTimes, x : SamplePositions, v : SampleValues, txt : {FALSE},
     level : 0..MaxLevel]

MgInit ==
    /\ \E n \in 0..MaxRecs : mg_in \in [1..n -> MergeRecs]
    /\ mg_out = <<>>
    /\ FsIdle
    /\ LdIdle

MergeLevels ==
    /\ mg_out = <<>>
    /\ mg_out' = <<Merge(mg_in)>>
    /\ UNCHANGED mg_in
    /\ UNCHANGED fsvars
    /\ UNCHANGED ldvars

MgNext == MergeLevels

MergeSpec == MgInit /\ [][MgNext]_vars

-----------------------------------------------------------------------------
(* _process_variable, _discover_and_group_files, load, the accessors *)

\* A path is <<variable stem, suffix>>; the paths of one stem sort by suffix.

\* the loop over enumerate(file_paths) from index i on, acc the rows appended
\* to all_levels_dfs so far; then the merge
RECURSIVE LevelLoop(_, _, _, _, _)
LevelLoop(dir, file_paths, tms, i, acc) ==
    IF i > Len(file_paths) THEN [st |-> "ok", df |-> Merge(acc)]
    ELSE LET lines == dir[file_paths[i]]
             lr == LevelRecords(lines, get_lines_per_block(lines), tms, i - 1)
         IN IF lr.st = "raise" THEN [st |-> "raise", df |-> <<>>]
            ELSE LevelLoop(dir, file_paths, tms, i + 1, acc \o lr.rows)

process_variable(dir, file_paths, tms) == LevelLoop(dir, file_paths, tms, 1, <<>>)

\* list.sort() of the paths of one stem
RECURSIVE InsertPath(_, _)
InsertPath(s, q) ==
    IF s = <<>> THEN <<q>>
    ELSE IF q[2] < Head(s)[2] THEN <<q>> \o s
         ELSE <<Head(s)>> \o InsertPath(Tail(s), q)

RECURSIVE SortPaths(_)
SortPaths(s) ==
    IF s = <<>> THEN <<>>
    ELSE InsertPath(SortPaths(SubSeq(s, 1, Len(s) - 1)), s[Len(s)])

\* sorted(keys)
RECURSIVE SortedKeys(_)
SortedKeys(S) ==
    IF S = {} THEN <<>>
    ELSE LET m == CHOOSE m \in S : \A n \in S : m <= n
         IN <<m>> \o SortedKeys(S \ {m})

\* the orders in which glob lists the files of S: ascending or descending
RECURSIVE Ascending(_)
Ascending(S) ==
    IF S = {} THEN <<>>
    ELSE LET m == CHOOSE m \in S : \A n \in S : m[1] < n[1] \/ (m[1] = n[1] /\ m[2] <= n[2])
         IN <<m>> \o Ascending(S \ {m})

Reversed(s) == [j \in 1..Len(s) |-> s[Len(s) + 1 - j]]

GlobOrders(S) == {Ascending(S), Reversed(Ascending(S))}

\* _discover_and_group_files: every listed path appended to the list of its
\* stem (the registry vp is not emptied first), then every list sorted
discover_and_group_files(vp, all_x_files) ==
    LET stems == DOMAIN vp \cup {all_x_files[i][1] : i \in 1..Len(all_x_files)}
    IN [var \in stems |->
          SortPaths((IF var \in DOMAIN vp THEN vp[var] ELSE <<>>)
                    \o SelectSeq(all_x_files, LAMBDA q : q[1] = var))]

\* the loop over self.variables from index k on; dat is self.data
RECURSIVE VariableLoop(_, _, _, _, _, _)
VariableLoop(dir, vp, vs, tms, k, dat) ==
    IF k > Len(vs) THEN [st |-> "ok", data |-> dat]
    ELSE LET r == process_variable(dir, vp[vs[k]], tms)
         IN IF r.st = "raise" THEN [st |-> "raised", data |-> dat]
            ELSE VariableLoop(dir, vp, vs, tms, k + 1,
                              [var \in DOMAIN dat \cup {vs[k]} |->
                                  IF var = vs[k] THEN r.df ELSE dat[var]])

\* self.data.get(variable_name, pd.DataFrame())
get_variable(dat, variable_name) ==
    IF variable_name \in DOMAIN dat THEN dat[variable_name] ELSE <<>>

\* self.times
get_times(tms) == tms

-----------------------------------------------------------------------------
(* The reader over a directory *)

\* a file of the directory: K blocks of B lines (B = 3, one body row per
\* block, or B = 2, no body row); bad: the first header does not parse
Shapes ==
    {s \in [B : {2, 3}, K : {0, 1, 2}, bad : BOOLEAN] :
        /\ s.bad => (s.K >= 1 /\ s.B = 3)
        /\ s.B = 2 => s.K >= 2}

ShapeFile(s, sfx) ==
    MkFile(s.B, s.K, [k \in 1..s.K |-> IF k = 1 /\ s.bad THEN "BH" ELSE "QH"],
           0, 0, 5 + 4 * sfx)

\* the directories: variable var has the files of suffix 0 .. cnt[var]-1
Counts ==
    {cnt \in [1..NVars -> 0..NSfx] :
        Cardinality({q \in (1..NVars) \X (0..(NSfx - 1)) : q[2] < cnt[q[1]]}) <= MaxFiles}

Paths(cnt) == {q \in (1..NVars) \X (0..(NSfx - 1)) : q[2] < cnt[q[1]]}

LdInit ==
    /\ \E cnt \in Counts :
          \E sh \in [Paths(cnt) -> Shapes] :
             directory = [q \in Paths(cnt) |-> ShapeFile(sh[q], q[2])]
    /\ variable_paths = <<>>
    /\ variables = <<>>
    /\ times = <<>>
    /\ data = <<>>
    /\ status = "new"
    /\ loads = 0
    /\ FsIdle
    /\ MgIdle

Load ==
    /\ loads < MaxLoads
    /\ loads' = loads + 1
    /\ \E all_x_files \in GlobOrders(DOMAIN directory) :
          LET vp == discover_and_group_files(variable_paths, all_x_files)
              vs == SortedKeys(DOMAIN vp)
          IN /\ variable_paths' = vp
             /\ variables' = vs
             /\ IF vs = <<>>
                THEN /\ status' = "nofiles"
                     /\ UNCHANGED <<times, data>>
                ELSE LET ref_paths == vp[vs[1]]
                         tms == parse_times_from_file(directory[ref_paths[1]],
                                    get_lines_per_block(directory[ref_paths[1]]))
                         res == VariableLoop(directory, vp, vs, tms, 1, data)
                     IN /\ times' = tms
                        /\ data' = res.data
                        /\ status' = res.st
    /\ UNCHANGED directory
    /\ UNCHANGED fsvars
    /\ UNCHANGED mgvars

LdNext == Load

LoadSpec == LdInit /\ [][LdNext]_vars

-----------------------------------------------------------------------------
(* Per-file functions applied to a generated file *)

FsInit ==
    /\ \E B \in 1..MaxB, K \in 0..MaxK, p \in 0..MaxPre, r \in 0..MaxTrail :
         \E kinds \in [1..K -> HdrKinds] :
            fs_lines = MkFile(B, K, kinds, p, r, 5)
    /\ \E lt \in 0..MaxTimes : fs_times = [j \in 1..lt |-> j - 1]
    /\ fs_level \in 0..1
    /\ fs_block = <<>>
    /\ fs_ptimes = <<>>
    /\ fs_recs = <<>>
    /\ MgIdle
    /\ LdIdle

DetectBlock ==
    /\ fs_block = <<>>
    /\ fs_block' = <<get_lines_per_block(fs_lines)>>
    /\ UNCHANGED <<fs_lines, fs_times, fs_level, fs_ptimes, fs_recs>>
    /\ UNCHANGED mgvars
    /\ UNCHANGED ldvars

ExtractTimes ==
    /\ fs_block # <<>>
    /\ fs_ptimes = <<>>
    /\ fs_ptimes' = <<parse_times_from_file(fs_lines, fs_block[1])>>
    /\ UNCHANGED <<fs_lines, fs_times, fs_level, fs_block, fs_recs>>
    /\ UNCHANGED mgvars
    /\ UNCHANGED ldvars

BuildRecords ==
    /\ fs_block # <<>>
    /\ fs_recs = <<>>
    /\ fs_recs' = <<LevelRecords(fs_lines, fs_block[1], fs_times, fs_level)>>
    /\ UNCHANGED <<fs_lines, fs_times, fs_level, fs_block, fs_ptimes>>
    /\ UNCHANGED mgvars
    /\ UNCHANGED ldvars

FsNext == DetectBlock \/ ExtractTimes \/ BuildRecords

FileSpec == FsInit /\ [][FsNext]_vars

-----------------------------------------------------------------------------
(* Properties of the per-file functions *)

\* 1-based indices of the lines that hold the token Time
HeaderIdx(lines) == {i \in 1..Len(lines) : HasTime(lines[i])}

Least(S) == CHOOSE m \in S : \A n \in S : m <= n

\* K blocks of B lines each, every block a header that parses followed by
\* B-1 lines without the token Time
WellFormed(lines, B, K) ==
    /\ B >= 1
    /\ K >= 1
    /\ Len(lines) = B * K
    /\ \A i \in 1..Len(lines) :
          IF (i - 1) % B = 0 THEN lines[i].k \in {"QH", "UH"}
          ELSE ~HasTime(lines[i])

\* the file format as the claim words it: header with Time and an assignment
\* (quoted line or quoted value), B-2 body rows, one reserved (blank) line
ClaimFormat(lines, B, K) ==
    /\ B >= 2
    /\ WellFormed(lines, B, K)
    /\ \A i \in 1..Len(lines) :
          /\ ((i - 1) % B = B - 1) => lines[i].k = "E"
          /\ ((i - 1) % B \in 1..(B - 2)) => lines[i].k = "D"

\* the same, with every header beginning with the comment character
QuotedFormat(lines, B, K) ==
    /\ ClaimFormat(lines, B, K)
    /\ \A i \in 1..Len(lines) : ((i - 1) % B = 0) => lines[i].k = "QH"

\* the records the claim expects: block by block, the body rows in file
\* order, each with the time of its block
AlignedRecords(lines, B, K, tms, i) ==
    [j \in 1..(K * (B - 2)) |->
        LET blk == (j - 1) \div (B - 2)
            ln == lines[blk * B + 2 + ((j - 1) % (B - 2))]
        IN [time |-> tms[blk + 1], x |-> ln.a, v |-> ln.b,
            txt |-> FALSE, level |-> i]]

\* C3: when the reference time sequence is shorter than the number of
\* complete blocks of the file, building the level's records does not fail
\* and emits the records of the first min(blocks, len(times)) blocks.
C3_MismatchGuarded ==
    (fs_block # <<>> /\ fs_recs # <<>>) =>
        LET rpb == fs_block[1] - 2
            body == read_csv(fs_lines)
        IN (rpb > 0 /\ Len(fs_times) < Len(body) \div rpb) =>
              /\ fs_recs[1].st # "raise"
              /\ Len(fs_recs[1].rows) = Min(Len(body) \div rpb, Len(fs_times)) * rpb

\* C5 as stated: for a file of K blocks (header with Time and an assignment
\* such as Time = "0.0", B-2 body rows, one reserved line) the records built
\* for level i are exactly the K*(B-2) body rows, block j at time times[j].
C5_AlignedAnyHeader ==
    (fs_block # <<>> /\ fs_recs # <<>>) =>
        \A B \in 2..Len(fs_lines), K \in 1..Len(fs_lines) :
            (ClaimFormat(fs_lines, B, K) /\ fs_block[1] = B /\ Len(fs_times) >= K) =>
                /\ fs_recs[1].st # "raise"
                /\ fs_recs[1].rows = AlignedRecords(fs_lines, B, K, fs_times, fs_level)

\* C5 amended: the same for files whose header lines begin with the comment
\* character (such as "Time = 0.0").
C5_AlignedQuotedHeader ==
    (fs_block # <<>> /\ fs_recs # <<>>) =>
        \A B \in 2..Len(fs_lines), K \in 1..Len(fs_lines) :
            (QuotedFormat(fs_lines, B, K) /\ fs_block[1] = B /\ Len(fs_times) >= K) =>
                /\ fs_recs[1].st # "raise"
                /\ fs_recs[1].rows = AlignedRecords(fs_lines, B, K, fs_times, fs_level)

C5_Witness ==
    /\ fs_block # <<>> /\ fs_recs # <<>>
    /\ fs_block[1] = 5
    /\ QuotedFormat(fs_lines, 5, 2)
    /\ fs_recs[1].st = "ok"
    /\ Len(fs_recs[1].rows) = 6
    /\ fs_recs[1].rows[3].time = 0 /\ fs_recs[1].rows[4].time = 1

\* C6: a file whose body holds rpb*n + r parsed rows (0 <= r < rpb) emits
\* exactly its first n*rpb rows, in file order, as n timesteps; the trailing
\* r rows are dropped, and a reference time axis longer than n does not
\* lengthen the level.
C6_Truncation ==
    (fs_block # <<>> /\ fs_recs # <<>>) =>
        LET rpb == fs_block[1] - 2
            body == read_csv(fs_lines)
        IN (rpb > 0 /\ Len(fs_times) >= Len(body) \div rpb) =>
              LET n == Len(body) \div rpb
                  rows == fs_recs[1].rows
              IN /\ fs_recs[1].st # "raise"
                 /\ Len(rows) = n * rpb
                 /\ \A j \in 1..Len(rows) :
                       /\ rows[j].x = body[j].x
                       /\ rows[j].v = body[j].v
                       /\ rows[j].txt = body[j].txt
                       /\ rows[j].time = fs_times[((j - 1) \div rpb) + 1]
                       /\ rows[j].level = fs_level

C6_Witness ==
    /\ fs_block # <<>> /\ fs_recs # <<>>
    /\ fs_block[1] - 2 > 0
    /\ Len(read_csv(fs_lines)) % (fs_block[1] - 2) # 0
    /\ fs_recs[1].st = "ok"
    /\ Len(fs_recs[1].rows) > 0
    /\ Len(fs_recs[1].rows) < Len(read_csv(fs_lines))
    /\ Len(fs_times) > Len(read_csv(fs_lines)) \div (fs_block[1] - 2)

\* C7: for a well-formed file of K blocks whose block size B is the one the
\* detector returns and whose headers all parse, the extracted times are the
\* K header times in file order, and the visited lines (index a multiple of
\* B) are exactly the header lines.
C7_TimesCountOrder ==
    (fs_block # <<>> /\ fs_ptimes # <<>>) =>
        \A B \in 1..Len(fs_lines), K \in 1..Len(fs_lines) :
            (WellFormed(fs_lines, B, K) /\ fs_block[1] = B) =>
                /\ fs_ptimes[1] = [k \in 1..K |-> fs_lines[(k - 1) * B + 1].a]
                /\ {i \in 1..Len(fs_lines) : (i - 1) % fs_block[1] = 0} = HeaderIdx(fs_lines)

C7_Witness ==
    /\ fs_block # <<>> /\ fs_ptimes # <<>>
    /\ fs_block[1] >= 3
    /\ \E K \in 2..Len(fs_lines) : WellFormed(fs_lines, fs_block[1], K)
    /\ Len(fs_ptimes[1]) >= 2
    /\ fs_ptimes[1][1] # fs_ptimes[1][2]

\* C8: the detector returns the distance between the first two lines that
\* hold the token Time, and 0 when there are fewer than two; when it returns
\* 0 the extracted times are empty and the file yields no records.
C8_DetectAndSkip ==
    fs_block # <<>> =>
        LET H == HeaderIdx(fs_lines)
        IN /\ Cardinality(H) < 2 => fs_block[1] = 0
           /\ Cardinality(H) >= 2 =>
                 fs_block[1] = Least(H \ {Least(H)}) - Least(H)
           /\ fs_block[1] = 0 =>
                 /\ fs_ptimes # <<>> => fs_ptimes[1] = <<>>
                 /\ fs_recs # <<>> => (fs_recs[1].st = "skip" /\ fs_recs[1].rows = <<>>)

C8_Witness ==
    /\ Cardinality(HeaderIdx(fs_lines)) = 1
    /\ Len(read_csv(fs_lines)) > 0
    /\ fs_block = <<0>>
    /\ fs_ptimes = <<(<<>>)>>
    /\ fs_recs # <<>> /\ fs_recs[1].st = "skip"

-----------------------------------------------------------------------------
(* Properties of the merge *)

\* the highest level among the records of master_df with the key of r
TopLevel(master_df, r) ==
    LET L == {master_df[k].level : k \in {k \in 1..Len(master_df) : SameKey(master_df[k], r)}}
    IN CHOOSE m \in L : \A n \in L : n <= m

\* the values of the records with the key of r at the highest level
TopValues(master_df, r) ==
    {master_df[k].v : k \in {k \in 1..Len(master_df) :
                                /\ SameKey(master_df[k], r)
                                /\ master_df[k].level = TopLevel(master_df, r)}}

\* C1: for every pair of records with the same (time, position) and levels
\* a < b, every merged entry at that key holds the value of a record of the
\* highest level present for the key, and there is such an entry, whatever
\* the order of concatenation.
C1_Override ==
    mg_out # <<>> =>
        \A i, j \in 1..Len(mg_in) :
            (SameKey(mg_in[i], mg_in[j]) /\ mg_in[i].level < mg_in[j].level) =>
                /\ \E e \in 1..Len(mg_out[1]) : SameKey(mg_out[1][e], mg_in[i])
                /\ \A e \in 1..Len(mg_out[1]) :
                      SameKey(mg_out[1][e], mg_in[i]) =>
                          mg_out[1][e].v \in TopValues(mg_in, mg_in[i])

\* the finer record comes first in the concatenation and has another value
C1_Witness ==
    /\ mg_out # <<>>
    /\ \E i, j \in 1..Len(mg_in) :
          /\ i < j
          /\ SameKey(mg_in[i], mg_in[j])
          /\ mg_in[i].level > mg_in[j].level
          /\ mg_in[i].v = 9 /\ mg_in[j].v = 5
          /\ \E e \in 1..Len(mg_out[1]) :
                SameKey(mg_out[1][e], mg_in[i]) /\ mg_out[1][e].v = 9

\* C2: no two entries of the merged dataset share a (time, position) key.
C2_UniqueKeys ==
    mg_out # <<>> =>
        \A e, f \in 1..Len(mg_out[1]) :
            e # f => ~SameKey(mg_out[1][e], mg_out[1][f])

\* duplicate keys inside one level and across levels
C2_Witness ==
    /\ mg_out # <<>>
    /\ Len(mg_out[1]) = 1
    /\ \E i, j, k \in 1..Len(mg_in) :
          /\ i # j
          /\ SameKey(mg_in[i], mg_in[j]) /\ mg_in[i].level = mg_in[j].level
          /\ SameKey(mg_in[i], mg_in[k]) /\ mg_in[i].level # mg_in[k].level

\* C9: the merged entries are in ascending time and, within a time, in
\* ascending position; each entry is the last of its key in the order
\* (time, position, level), so it holds a value of the highest level.
C9_Ordered ==
    mg_out # <<>> =>
        /\ \A e, f \in 1..Len(mg_out[1]) :
              e < f =>
                  \/ mg_out[1][e].time < mg_out[1][f].time
                  \/ /\ mg_out[1][e].time = mg_out[1][f].time
                     /\ mg_out[1][e].x < mg_out[1][f].x
        /\ \A e \in 1..Len(mg_out[1]) :
              \E k \in 1..Len(mg_in) :
                  /\ SameKey(mg_in[k], mg_out[1][e])
                  /\ mg_in[k].v = mg_out[1][e].v
                  /\ \A m \in 1..Len(mg_in) :
                        SameKey(mg_in[m], mg_in[k]) => mg_in[m].level <= mg_in[k].level

\* the records arrive out of order
C9_Witness ==
    /\ mg_out # <<>>
    /\ Len(mg_out[1]) = 3
    /\ KeyLess(mg_in[3], mg_in[2]) /\ KeyLess(mg_in[2], mg_in[1])
    /\ mg_in[1].time = mg_in[2].time

-----------------------------------------------------------------------------
(* Properties of load() *)

\* block size undetectable, block body too small, or a visited header line
\* that does not parse
Malformed(lines) ==
    LET bs == get_lines_per_block(lines)
    IN \/ bs - 2 <= 0
       \/ \E i \in 1..Len(lines) : (i - 1) % bs = 0 /\ lines[i].k = "BH"

\* C4: when a file of the directory is malformed, load() still completes
\* without raising and every variable gets its dataset.
C4_MalformationNotFatal ==
    (loads >= 1 /\ \E q \in DOMAIN directory : Malformed(directory[q])) =>
        /\ status = "ok"
        /\ \A q \in DOMAIN directory : q[1] \in DOMAIN data

\* C10: once load() has run, a further load() changes neither get_times()
\* nor get_variable(v) for any variable name v.
C10_ReloadIdempotent ==
    [][loads >= 1 =>
          /\ get_times(times') = get_times(times)
          /\ \A name \in 1..(NVars + 1) :
                get_variable(data', name) = get_variable(data, name)]_vars

\* two loads done, the registry holds every path twice, and a finer file
\* overrides a coarser one
C10_Witness ==
    /\ loads >= 2
    /\ status = "ok"
    /\ \E var \in DOMAIN variable_paths :
          /\ Len(variable_paths[var]) = 4
          /\ variable_paths[var][1] = variable_paths[var][2]
          /\ variable_paths[var][2] # variable_paths[var][3]
          /\ Len(data[var]) >= 2
          /\ data[var][1].v = 9

=============================================================================
